---- MODULE Spec2Model ----
(***************************************************************************)
(* A model of deno's core ModuleMap (core/modules/map.rs): the module      *)
(* registry (handles, info, by_name_js, by_name_json), its snapshot codec, *)
(* the JSON module adapter and the dynamic import tracker.                 *)
(*                                                                         *)
(* Rust strings are modelled as their UTF-8 byte sequences, V8 strings as  *)
(* their sequences of code units, so that the string conversions of the    *)
(* snapshot codec are computed rather than assumed.                        *)
(***************************************************************************)
EXTENDS Integers, Sequences, FiniteSets, TLC

(***************************************************************************)
(* Bounds of the model.                                                    *)
(***************************************************************************)
\* modules the registry holds at a time
MaxModules == 2
\* Alias entries the two by-name mappings hold at a time
MaxAliases == 2
\* JSON modules evaluated over a whole run
MaxEvaluations == 2
\* bytes of the longest name a snapshot is taken of
MaxNameLen == 4
\* dynamic imports started over a whole run
MaxImports == 2

\* top-level loads (load_main, load_side) started
MaxLoads == 2

(***************************************************************************)
(* Strings.                                                                *)
(***************************************************************************)
\* ModuleName values: "a", "b" and the non-ASCII name "é" (UTF-8 C3 A9)
NameA == <<97>>
NameB == <<98>>
NameE == <<195, 169>>
Names == {NameA, NameB, NameE}

\* raw import specifiers as written in a module: "./a", "./b", "?"
SpecA == <<46, 47, 97>>
SpecB == <<46, 47, 98>>
SpecBad == <<63>>
\* "./m" and the name "m" it resolves to
SpecM == <<46, 47, 109>>
NameM == <<109>>
Specifiers == {SpecA, SpecB, SpecBad}

\* the UTF-8 encoding of one code point below 0x800
Utf8EncodeUnit(cp) ==
  IF cp < 128 THEN <<cp>> ELSE <<192 + (cp \div 64), 128 + (cp % 64)>>

RECURSIVE Utf8Encode(_)
Utf8Encode(units) ==
  IF units = <<>> THEN <<>>
  ELSE Utf8EncodeUnit(Head(units)) \o Utf8Encode(Tail(units))

\* the code points of well-formed UTF-8 bytes (one- and two-byte forms)
RECURSIVE Utf8Decode(_)
Utf8Decode(bytes) ==
  IF bytes = <<>> THEN <<>>
  ELSE IF Head(bytes) < 128 THEN <<Head(bytes)>> \o Utf8Decode(Tail(bytes))
  ELSE <<(Head(bytes) - 192) * 64 + (bytes[2] - 128)>>
         \o Utf8Decode(Tail(Tail(bytes)))

\* V8 values of the snapshot payload
V8Integer(n) == [kind |-> "Integer", val |-> n]
V8Boolean(b) == [kind |-> "Boolean", val |-> b]
V8String(units) == [kind |-> "String", val |-> units]

\* FastString::v8: a V8 string made from the UTF-8 text
FastStringV8(s) == V8String(Utf8Decode(s))
\* v8::String::new_from_one_byte: every byte becomes one code unit
NewFromOneByte(bytes) == V8String(bytes)
\* to_rust_string_lossy: the V8 string as a Rust (UTF-8) string
ToRustStringLossy(v) == Utf8Encode(v.val)

(***************************************************************************)
(* Module types.                                                           *)
(***************************************************************************)
AssertedModuleTypes == {"JavaScriptOrWasm", "Json"}
ModuleTypes == {"JavaScript", "Json"}

\* impl From<ModuleType> for AssertedModuleType, as used by by_name_mut
TypeInto(module_type) ==
  IF module_type = "Json" THEN "Json" ELSE "JavaScriptOrWasm"

\* `as i32` of the two enums
AssertedTypeNo(t) == IF t = "JavaScriptOrWasm" THEN 0 ELSE 1
ModuleTypeNo(t) == IF t = "JavaScript" THEN 0 ELSE 1

(***************************************************************************)
(* The Loader and the Engine (external collaborators).                     *)
(***************************************************************************)
Ok(v) == [ok |-> TRUE, val |-> v]
Err(e) == [ok |-> FALSE, err |-> e]

\* loader.resolve(specifier, referrer, kind): "./a" and "./b" resolve to the
\* names "a" and "b" (a resolved ModuleSpecifier is a URL, which is ASCII),
\* "?" fails
LoaderResolve(specifier, referrer) ==
  CASE specifier = SpecA -> Ok(NameA)
    [] specifier = SpecB -> Ok(NameB)
    [] specifier = SpecM -> Ok(NameM)
    [] OTHER -> Err([kind |-> "Resolution", specifier |-> specifier])

\* an import statement of a compiled module: the specifier as written and
\* its assertion ("none", "json", or the unsupported "css")
Import(specifier, assertion) ==
  [specifier |-> specifier, assertion |-> assertion]

\* validate_import_assertions throws for an unsupported type
AssertionsValid(assertion) == assertion \in {"none", "json"}
\* get_asserted_module_type_from_assertions
AssertedTypeOf(assertion) ==
  IF assertion = "json" THEN "Json" ELSE "JavaScriptOrWasm"

\* what the engine makes of an ES module source: a compile exception, or a
\* module with its import statements in source order
SrcBroken == [compiles |-> FALSE, imports |-> <<>>]
SrcLeaf == [compiles |-> TRUE, imports |-> <<>>]
SrcTwo ==
  [compiles |-> TRUE,
   imports |-> <<Import(SpecB, "none"), Import(SpecA, "json")>>]
SrcCss == [compiles |-> TRUE, imports |-> <<Import(SpecA, "css")>>]
SrcUnresolved == [compiles |-> TRUE, imports |-> <<Import(SpecBad, "none")>>]
EsSources == {SrcBroken, SrcLeaf, SrcTwo, SrcCss, SrcUnresolved}

\* JSON module sources as bytes: "{}", BOM + "{}", and the malformed "{"
JsonGood == <<123, 125>>
JsonBom == <<239, 187, 191, 123, 125>>
JsonBad == <<123>>
JsonSources == {JsonGood, JsonBom, JsonBad}

BOM_CHAR == <<239, 187, 191>>

strip_bom(source_code) ==
  IF Len(source_code) >= Len(BOM_CHAR)
     /\ SubSeq(source_code, 1, Len(BOM_CHAR)) = BOM_CHAR
  THEN SubSeq(source_code, Len(BOM_CHAR) + 1, Len(source_code))
  ELSE source_code

\* v8::json::parse: only the text "{}" parses here
JsonParse(text) ==
  IF text = JsonGood THEN Ok("EmptyObject") ELSE Err([kind |-> "Exception"])

(***************************************************************************)
(* State.                                                                  *)
(***************************************************************************)
VARIABLES
  handles,                    \* Vec<v8::Global<v8::Module>>
  info,                       \* Vec<ModuleInfo>
  by_name_js,                 \* HashMap<ModuleName, SymbolicModule>
  by_name_json,               \* HashMap<ModuleName, SymbolicModule>
  next_load_id,               \* ModuleLoadId
  dynamic_import_map,         \* HashMap<ModuleLoadId, PromiseResolver>
  preparing_dynamic_imports,  \* futures pushed by load_dynamic_import
  pending_dynamic_imports,    \* loads whose graph is being expanded
  json_value_store,           \* HashMap<Global<Module>, Global<Value>>
  promises,                   \* engine: the state of every promise created
  fetches,                    \* loader: number of fetch calls made
  snapshot,                   \* the SnapshottedData taken, if any
  issued,                     \* ModuleIds handed out since new() or clear()
  top_level_loads,            \* the loads of load_main / load_side in flight
  evaluated,                  \* engine: default export of each evaluated module
  last                        \* the last operation and what it returned

vars ==
  <<handles, info, by_name_js, by_name_json, next_load_id,
    dynamic_import_map, preparing_dynamic_imports, pending_dynamic_imports,
    json_value_store, promises, fetches, snapshot, issued, top_level_loads,
    evaluated, last>>

registry == <<handles, info, by_name_js, by_name_json, next_load_id>>
tracker ==
  <<dynamic_import_map, preparing_dynamic_imports, pending_dynamic_imports>>
engine == <<promises, fetches, top_level_loads>>

\* SymbolicModule
Alias(target) == [tag |-> "Alias", target |-> target]
Mod(id) == [tag |-> "Mod", id |-> id]

None == [tag |-> "None"]
Some(v) == [tag |-> "Some", val |-> v]

EmptyMap == <<>>
\* an insertion that drops the other keys of the map
MapInsertAlone(map, key, value) ==
  [k \in {key} |-> value]
MapInsert(map, key, value) ==
  [k \in (DOMAIN map) \cup {key} |-> IF k = key THEN value ELSE map[k]]
MapRemove(map, key) == [k \in (DOMAIN map) \ {key} |-> map[k]]

by_name(js, json, asserted_module_type) ==
  IF asserted_module_type = "Json" THEN json ELSE js

(***************************************************************************)
(* ModuleMap::new                                                          *)
(***************************************************************************)
\* the record of a call: the operation, its arguments, what it returned
Call(op, name, main, type, arg, ret) ==
  [op |-> op, name |-> name, main |-> main, type |-> type, arg |-> arg,
   ret |-> ret]

Range(f) == {f[k] : k \in DOMAIN f}

\* the module handles held by the registry, the JSON value store or a
\* snapshot, and those of the modules evaluated; the engine hands out a
\* handle different from all of them
LiveHandles ==
  Range(handles) \cup DOMAIN json_value_store \cup DOMAIN evaluated
    \cup (IF snapshot.tag = "Some" THEN Range(snapshot.val.module_handles)
          ELSE {})

FreshHandle == CHOOSE h \in 0..Cardinality(LiveHandles) : h \notin LiveHandles

\* the Alias entries of a by-name mapping
AliasKeys(map) == {k \in DOMAIN map : map[k].tag = "Alias"}

Init ==
  /\ handles = <<>>
  /\ info = <<>>
  /\ by_name_js = EmptyMap
  /\ by_name_json = EmptyMap
  /\ next_load_id = 1
  /\ dynamic_import_map = EmptyMap
  /\ preparing_dynamic_imports = <<>>
  /\ pending_dynamic_imports = <<>>
  /\ json_value_store = EmptyMap
  /\ promises = <<>>
  /\ fetches = 0
  /\ snapshot = None
  /\ issued = {}
  /\ top_level_loads = <<>>
  /\ evaluated = EmptyMap
  /\ last = Call("new", <<>>, FALSE, "none", <<>>, Ok("unit"))

(***************************************************************************)
(* ModuleMap::get_id                                                       *)
(***************************************************************************)
\* The loop of get_id on `map`, standing at mod_name. A walk that takes more
\* alias hops than the map has entries is in a cycle and never returns:
\* that outcome is "Loop".
RECURSIVE get_id_loop(_, _, _)
get_id_loop(map, mod_name, hops) ==
  IF mod_name \notin DOMAIN map THEN None
  ELSE IF map[mod_name].tag = "Mod" THEN Some(map[mod_name].id)
  ELSE IF hops = 0 THEN [tag |-> "Loop"]
  ELSE get_id_loop(map, map[mod_name].target, hops - 1)

\* a get_id that follows one alias and gives up on a second one
get_id_one_hop(map, name) ==
  IF name \notin DOMAIN map THEN None
  ELSE IF map[name].tag = "Mod" THEN Some(map[name].id)
  ELSE IF map[name].target \notin DOMAIN map THEN None
  ELSE IF map[map[name].target].tag = "Mod"
  THEN Some(map[map[name].target].id)
  ELSE None

get_id(map, name) == get_id_loop(map, name, Cardinality(DOMAIN map))

\* get_info_by_id
get_info_by_id(infos, id) ==
  IF id + 1 \in DOMAIN infos THEN Some(infos[id + 1]) ELSE None

\* an is_registered that looks at the entry of the name alone
is_registered_direct(js, json, infos, specifier, asserted_module_type) ==
  LET map == by_name(js, json, asserted_module_type) IN
  Some(/\ specifier \in DOMAIN map
       /\ map[specifier].tag = "Mod"
       /\ get_info_by_id(infos, map[specifier].id).tag = "Some"
       /\ asserted_module_type
            = TypeInto(
                get_info_by_id(infos, map[specifier].id).val.module_type))

\* an is_registered that finds nothing registered
is_registered_never(js, json, infos, specifier, asserted_module_type) ==
  Some(FALSE)

\* ModuleMap::is_registered on the maps js, json and the info list: Some of
\* the boolean it returns, "Panic" for the unwrap() of a missing ModuleInfo,
\* "Loop" for a get_id that never returns
is_registered(js, json, infos, specifier, asserted_module_type) ==
  LET id == get_id(by_name(js, json, asserted_module_type), specifier) IN
  CASE id.tag = "Some" ->
         IF get_info_by_id(infos, id.val).tag = "None"
         THEN [tag |-> "Panic"]
         ELSE Some(asserted_module_type
                     = TypeInto(
                         get_info_by_id(infos, id.val).val.module_type))
    [] id.tag = "None" -> Some(FALSE)
    [] OTHER -> [tag |-> "Loop"]

(***************************************************************************)
(* ModuleMap::create_module_info                                           *)
(***************************************************************************)
\* a ModuleId read after the push of the handle
NewModuleIdAfterPush == Len(handles) + 1

\* the ModuleId create_module_info hands out
NewModuleId == Len(handles)

ModuleInfo(id, main, name, requests, module_type) ==
  [id |-> id, main |-> main, name |-> name, requests |-> requests,
   module_type |-> module_type]

ModuleRequest(specifier, asserted_module_type) ==
  [specifier |-> specifier, asserted_module_type |-> asserted_module_type]

\* a create_module_info that files every module under the JavaScript names
create_module_info_untyped(name, module_type, handle, main, requests) ==
  LET id == NewModuleId IN
  /\ by_name_js' = MapInsert(by_name_js, name, Mod(id))
  /\ by_name_json' = by_name_json
  /\ handles' = Append(handles, handle)
  /\ info' = Append(info, ModuleInfo(id, main, name, requests, module_type))

\* a create_module_info that keeps the first registration of a name
create_module_info_once(name, module_type, handle, main, requests) ==
  LET id == NewModuleId
      map == by_name(by_name_js, by_name_json, TypeInto(module_type))
  IN
  IF name \in DOMAIN map
  THEN UNCHANGED <<handles, info, by_name_js, by_name_json>>
  ELSE /\ by_name_js' =
            IF TypeInto(module_type) = "JavaScriptOrWasm"
            THEN MapInsert(by_name_js, name, Mod(id)) ELSE by_name_js
       /\ by_name_json' =
            IF TypeInto(module_type) = "Json"
            THEN MapInsert(by_name_json, name, Mod(id)) ELSE by_name_json
       /\ handles' = Append(handles, handle)
       /\ info' = Append(info, ModuleInfo(id, main, name, requests,
                                          module_type))

create_module_info(name, module_type, handle, main, requests) ==
  LET id == NewModuleId IN
  /\ by_name_js' =
       IF TypeInto(module_type) = "JavaScriptOrWasm"
       THEN MapInsert(by_name_js, name, Mod(id)) ELSE by_name_js
  /\ by_name_json' =
       IF TypeInto(module_type) = "Json"
       THEN MapInsert(by_name_json, name, Mod(id)) ELSE by_name_json
  /\ handles' = Append(handles, handle)
  /\ info' = Append(info, ModuleInfo(id, main, name, requests, module_type))

(***************************************************************************)
(* ModuleMap::new_es_module                                                *)
(***************************************************************************)
\* a requests loop that stores the specifiers as written
RECURSIVE es_requests_raw(_, _, _)
es_requests_raw(imports, name, requests) ==
  IF imports = <<>> THEN Ok(requests)
  ELSE LET import == Head(imports)
           module_specifier == LoaderResolve(import.specifier, name)
       IN
       IF ~AssertionsValid(import.assertion)
       THEN Err([kind |-> "Exception", what |-> "assertion"])
       ELSE IF ~module_specifier.ok
       THEN Err([kind |-> "Other", error |-> module_specifier.err])
       ELSE es_requests_raw(
              Tail(imports), name,
              Append(requests,
                     ModuleRequest(import.specifier,
                                   AssertedTypeOf(import.assertion))))

\* the requests loop: Ok(requests) or the first error in source order
RECURSIVE es_requests(_, _, _)
es_requests(imports, name, requests) ==
  IF imports = <<>> THEN Ok(requests)
  ELSE LET import == Head(imports)
           module_specifier == LoaderResolve(import.specifier, name)
       IN
       IF ~AssertionsValid(import.assertion)
       THEN Err([kind |-> "Exception", what |-> "assertion"])
       ELSE IF ~module_specifier.ok
       THEN Err([kind |-> "Other", error |-> module_specifier.err])
       ELSE es_requests(
              Tail(imports), name,
              Append(requests,
                     ModuleRequest(module_specifier.val,
                                   AssertedTypeOf(import.assertion))))

\* a search that never finds a main module
maybe_main_module_none(infos) == None

\* the main module already registered, if any
maybe_main_module(infos) ==
  IF \E i \in DOMAIN infos : infos[i].main
  THEN Some(infos[CHOOSE i \in DOMAIN infos :
                    infos[i].main /\ \A j \in 1..(i - 1) : ~infos[j].main])
  ELSE None

\* the two names of the message in the other order
DuplicateMainSwapped(name, main_module_name) ==
  [kind |-> "Other",
   error |-> [kind |-> "DuplicateMain", attempted |-> main_module_name,
              existing |-> name]]

DuplicateMain(name, main_module_name) ==
  [kind |-> "Other",
   error |-> [kind |-> "DuplicateMain", attempted |-> name,
              existing |-> main_module_name]]

\* what new_es_module returns, and the requests it registers
new_es_module_result(main, name, source) ==
  LET requests == es_requests(source.imports, name, <<>>) IN
  IF ~source.compiles
  THEN Err([kind |-> "Exception", what |-> "compile"])
  ELSE IF ~requests.ok THEN requests
  ELSE IF main /\ maybe_main_module(info).tag = "Some"
  THEN Err(DuplicateMain(name, maybe_main_module(info).val.name))
  ELSE Ok([id |-> NewModuleId, requests |-> requests.val])

\* a new_es_module that empties the registry when it fails
new_es_module_rollback(main, name, source) ==
  LET result == new_es_module_result(main, name, source) IN
  IF result.ok
  THEN create_module_info(name, "JavaScript", FreshHandle, main,
                          result.val.requests)
  ELSE /\ handles' = <<>>
       /\ info' = <<>>
       /\ by_name_js' = EmptyMap
       /\ by_name_json' = EmptyMap

\* the effect of new_es_module on the registry and the engine
new_es_module(main, name, source) ==
  LET result == new_es_module_result(main, name, source) IN
  IF result.ok
  THEN create_module_info(name, "JavaScript", FreshHandle, main,
                          result.val.requests)
  ELSE UNCHANGED <<handles, info, by_name_js, by_name_json>>

\* Ok(id) or the error, as the caller sees it
Returned(result) == IF result.ok THEN Ok(result.val.id) ELSE result

\* the ModuleIds handed out, after a call that returned ret
Issue(ret) == issued' = IF ret.ok THEN issued \cup {ret.val} ELSE issued

NewEsModuleOf(names, sources) ==
  \E main \in BOOLEAN, name \in names, source \in sources :
    /\ Len(handles) < MaxModules
    /\ new_es_module(main, name, source)
    /\ last' = Call("new_es_module", name, main, "JavaScriptOrWasm", source,
                    Returned(new_es_module_result(main, name, source)))
    /\ Issue(Returned(new_es_module_result(main, name, source)))
    /\ UNCHANGED <<next_load_id, tracker, json_value_store, engine,
                   snapshot, evaluated>>

(***************************************************************************)
(* ModuleMap::new_json_module                                              *)
(***************************************************************************)
new_json_module_result(name, source) ==
  LET parsed_json == JsonParse(strip_bom(source)) IN
  IF ~parsed_json.ok THEN Err([kind |-> "Exception", what |-> "parse"])
  ELSE Ok([id |-> NewModuleId, value |-> parsed_json.val])

\* a new_json_module that keeps the handle of a module that did not parse
new_json_module_keeps_handle(name, source) ==
  LET result == new_json_module_result(name, source) IN
  IF result.ok
  THEN /\ json_value_store'
            = MapInsert(json_value_store, FreshHandle, result.val.value)
       /\ create_module_info(name, "Json", FreshHandle, FALSE, <<>>)
  ELSE /\ handles' = Append(handles, FreshHandle)
       /\ UNCHANGED <<info, by_name_js, by_name_json, json_value_store>>

new_json_module(name, source) ==
  LET result == new_json_module_result(name, source) IN
  IF result.ok
  THEN /\ json_value_store'
            = MapInsert(json_value_store, FreshHandle, result.val.value)
       /\ create_module_info(name, "Json", FreshHandle, FALSE, <<>>)
  ELSE UNCHANGED <<handles, info, by_name_js, by_name_json,
                   json_value_store>>

NewJsonModuleOf(names, sources) ==
  \E name \in names, source \in sources :
    /\ Len(handles) < MaxModules
    /\ new_json_module(name, source)
    /\ last' = Call("new_json_module", name, FALSE, "Json", source,
                    Returned(new_json_module_result(name, source)))
    /\ Issue(Returned(new_json_module_result(name, source)))
    /\ UNCHANGED <<next_load_id, tracker, engine, snapshot, evaluated>>

(***************************************************************************)
(* json_module_evaluation_steps                                            *)
(***************************************************************************)
\* json_value_store.remove(&handle): the value stored, if any
json_value_store_remove(handle) ==
  IF handle \in DOMAIN json_value_store THEN Some(json_value_store[handle])
  ELSE None

\* the engine evaluates a synthetic module made by new_json_module, once:
\* the stored value is removed and set as the export "default"; the
\* unwrap() of a missing value panics
JsonModuleEvaluationSteps ==
  \E i \in DOMAIN handles :
    LET handle == handles[i]
        value_handle == json_value_store_remove(handle)
    IN
    /\ i \in DOMAIN info
    /\ info[i].module_type = "Json"
    /\ handle \notin DOMAIN evaluated
    /\ Cardinality(DOMAIN evaluated) < MaxEvaluations
    /\ IF value_handle.tag = "Some"
       THEN /\ json_value_store' = MapRemove(json_value_store, handle)
            /\ evaluated' = MapInsert(evaluated, handle, value_handle.val)
            /\ last' = Call("json_module_evaluation_steps", info[i].name,
                            FALSE, "Json", handle, Ok(value_handle.val))
       ELSE /\ UNCHANGED <<json_value_store, evaluated>>
            /\ last' = Call("json_module_evaluation_steps", info[i].name,
                            FALSE, "Json", handle, Err([kind |-> "Panic"]))
    /\ UNCHANGED <<registry, tracker, engine, snapshot, issued>>

(***************************************************************************)
(* ModuleMap::inject_handle                                                *)
(***************************************************************************)
inject_handle(name, module_type, handle) ==
  create_module_info(name, module_type, handle, FALSE, <<>>)

InjectHandleOf(names) ==
  \E name \in names, module_type \in ModuleTypes :
    /\ Len(handles) < MaxModules
    /\ inject_handle(name, module_type, FreshHandle)
    /\ last' = Call("inject_handle", name, FALSE, TypeInto(module_type),
                    module_type, Ok(NewModuleId))
    /\ Issue(Ok(NewModuleId))
    /\ UNCHANGED <<next_load_id, tracker, json_value_store, engine,
                   snapshot, evaluated>>

(***************************************************************************)
(* ModuleMap::alias                                                        *)
(***************************************************************************)
\* an alias that writes to both by-name mappings
alias_both(name, asserted_module_type, target) ==
  /\ by_name_js' = MapInsert(by_name_js, name, Alias(target))
  /\ by_name_json' = MapInsert(by_name_json, name, Alias(target))

alias(name, asserted_module_type, target) ==
  /\ by_name_js' =
       IF asserted_module_type = "JavaScriptOrWasm"
       THEN MapInsert(by_name_js, name, Alias(target)) ELSE by_name_js
  /\ by_name_json' =
       IF asserted_module_type = "Json"
       THEN MapInsert(by_name_json, name, Alias(target)) ELSE by_name_json

\* debug_assert_ne!(name, target): the caller passes two different names
AliasOf(names, targets) ==
  \E name \in names, target \in targets, t \in AssertedModuleTypes :
    /\ name # target
    /\ alias(name, t, target)
    /\ Cardinality(AliasKeys(by_name_js')) + Cardinality(AliasKeys(by_name_json'))
         <= MaxAliases
    /\ last' = Call("alias", name, FALSE, t, target, Ok("unit"))
    /\ UNCHANGED <<handles, info, next_load_id, tracker, json_value_store,
                   engine, snapshot, evaluated, issued>>

(***************************************************************************)
(* ModuleMap::clear                                                        *)
(***************************************************************************)
\* a clear that keeps the LoadId counter
clear_keeps_load_id ==
  /\ handles' = <<>>
  /\ info' = <<>>
  /\ by_name_js' = EmptyMap
  /\ by_name_json' = EmptyMap
  /\ next_load_id' = next_load_id
  /\ dynamic_import_map' = EmptyMap
  /\ preparing_dynamic_imports' = <<>>
  /\ pending_dynamic_imports' = <<>>
  /\ json_value_store' = EmptyMap

clear ==
  /\ handles' = <<>>
  /\ info' = <<>>
  /\ by_name_js' = EmptyMap
  /\ by_name_json' = EmptyMap
  /\ next_load_id' = 1
  /\ dynamic_import_map' = EmptyMap
  /\ preparing_dynamic_imports' = <<>>
  /\ pending_dynamic_imports' = <<>>
  /\ json_value_store' = EmptyMap

Clear ==
  /\ clear
  /\ issued' = {}
  /\ last' = Call("clear", <<>>, FALSE, "none", <<>>, Ok("unit"))
  /\ UNCHANGED <<engine, snapshot, evaluated>>

(***************************************************************************)
(* ModuleMap::serialize_for_snapshotting                                   *)
(***************************************************************************)
RECURSIVE SeqOfSet(_)
SeqOfSet(S) ==
  IF S = {} THEN <<>>
  ELSE LET x == CHOOSE y \in S : TRUE IN <<x>> \o SeqOfSet(S \ {x})

Reverse(seq) == [i \in 1..Len(seq) |-> seq[Len(seq) + 1 - i]]

\* HashMap::iter: the entries in an order the map chooses; two orders are
\* modelled, one the reverse of the other
MapIter(map, reversed) ==
  LET keys == IF reversed THEN Reverse(SeqOfSet(DOMAIN map))
              ELSE SeqOfSet(DOMAIN map)
  IN [i \in 1..Len(keys) |-> <<keys[i], map[keys[i]]>>]

collect_modules(reversed) ==
  [i \in 1..Len(MapIter(by_name_js, reversed)) |->
     <<"JavaScriptOrWasm", MapIter(by_name_js, reversed)[i][1],
       MapIter(by_name_js, reversed)[i][2]>>]
  \o
  [i \in 1..Len(MapIter(by_name_json, reversed)) |->
     <<"Json", MapIter(by_name_json, reversed)[i][1],
       MapIter(by_name_json, reversed)[i][2]>>]

\* the V8 array of 2 * len entries made of a request list
RequestsArr(requests) ==
  [k \in 1..(2 * Len(requests)) |->
     IF k % 2 = 1
     THEN NewFromOneByte(requests[(k + 1) \div 2].specifier)
     ELSE V8Integer(AssertedTypeNo(requests[k \div 2].asserted_module_type))]

ModuleInfoArr(module_info) ==
  <<V8Integer(module_info.id), V8Boolean(module_info.main),
    FastStringV8(module_info.name), RequestsArr(module_info.requests),
    V8Integer(ModuleTypeNo(module_info.module_type))>>

SymbolicModuleVal(module) ==
  IF module.tag = "Alias" THEN NewFromOneByte(module.target)
  ELSE V8Integer(module.id)

ByNameArr(entry) ==
  <<FastStringV8(entry[2]), V8Integer(AssertedTypeNo(entry[1])),
    SymbolicModuleVal(entry[3])>>

serialize_for_snapshotting(reversed) ==
  [module_map_data |->
     <<V8Integer(next_load_id),
       [i \in 1..Len(info) |-> ModuleInfoArr(info[i])],
       [i \in 1..Len(collect_modules(reversed)) |->
          ByNameArr(collect_modules(reversed)[i])]>>,
   module_handles |-> handles]

(***************************************************************************)
(* ModuleMap::update_with_snapshotted_data                                 *)
(***************************************************************************)
AssertedTypeFromNo(n) == IF n = 0 THEN "JavaScriptOrWasm" ELSE "Json"
ModuleTypeFromNo(n) == IF n = 0 THEN "JavaScript" ELSE "Json"

RequestsFromArr(requests_arr) ==
  [i \in 1..(Len(requests_arr) \div 2) |->
     ModuleRequest(ToRustStringLossy(requests_arr[2 * i - 1]),
                   AssertedTypeFromNo(requests_arr[2 * i].val))]

ModuleInfoFromArr(module_info_arr) ==
  ModuleInfo(module_info_arr[1].val, module_info_arr[2].val,
             ToRustStringLossy(module_info_arr[3]),
             RequestsFromArr(module_info_arr[4]),
             ModuleTypeFromNo(module_info_arr[5].val))

SymbolicModuleFromVal(symbolic_module_val) ==
  IF symbolic_module_val.kind = "Integer" THEN Mod(symbolic_module_val.val)
  ELSE Alias(ToRustStringLossy(symbolic_module_val))

\* the by-name mapping of asserted type t after the inserts of
\* by_name_arr[i..], starting from map
RECURSIVE ByNameFromArr(_, _, _, _)
ByNameFromArr(by_name_arr, i, t, map) ==
  IF i > Len(by_name_arr) THEN map
  ELSE ByNameFromArr(
         by_name_arr, i + 1, t,
         IF AssertedTypeFromNo(by_name_arr[i][2].val) = t
         THEN MapInsert(map, ToRustStringLossy(by_name_arr[i][1]),
                        SymbolicModuleFromVal(by_name_arr[i][3]))
         ELSE map)

\* a restore that leaves the LoadId counter as it is
update_with_snapshotted_data_keeps_counter(snapshotted_data) ==
  LET local_data == snapshotted_data.module_map_data IN
  /\ next_load_id' = next_load_id
  /\ info' = [i \in 1..Len(local_data[2]) |->
                ModuleInfoFromArr(local_data[2][i])]
  /\ by_name_js'
       = ByNameFromArr(local_data[3], 1, "JavaScriptOrWasm", EmptyMap)
  /\ by_name_json' = ByNameFromArr(local_data[3], 1, "Json", EmptyMap)
  /\ handles' = snapshotted_data.module_handles

\* a restore that inserts into the by-name mappings without clearing them
update_with_snapshotted_data_merges(snapshotted_data) ==
  LET local_data == snapshotted_data.module_map_data IN
  /\ next_load_id' = local_data[1].val
  /\ info' = [i \in 1..Len(local_data[2]) |->
                ModuleInfoFromArr(local_data[2][i])]
  /\ by_name_js'
       = ByNameFromArr(local_data[3], 1, "JavaScriptOrWasm", by_name_js)
  /\ by_name_json' = ByNameFromArr(local_data[3], 1, "Json", by_name_json)
  /\ handles' = snapshotted_data.module_handles

update_with_snapshotted_data(snapshotted_data) ==
  LET local_data == snapshotted_data.module_map_data IN
  /\ next_load_id' = local_data[1].val
  /\ info' = [i \in 1..Len(local_data[2]) |->
                ModuleInfoFromArr(local_data[2][i])]
  /\ by_name_js'
       = ByNameFromArr(local_data[3], 1, "JavaScriptOrWasm", EmptyMap)
  /\ by_name_json' = ByNameFromArr(local_data[3], 1, "Json", EmptyMap)
  /\ handles' = snapshotted_data.module_handles

\* every name the registry holds, as a key, a module name or an alias target
RegistryNames ==
  DOMAIN by_name_js \cup DOMAIN by_name_json
    \cup {info[i].name : i \in DOMAIN info}
    \cup {by_name_js[k].target : k \in AliasKeys(by_name_js)}
    \cup {by_name_json[k].target : k \in AliasKeys(by_name_json)}

Serialize ==
  \E reversed \in BOOLEAN :
    /\ snapshot = None
    /\ \A name \in RegistryNames : Len(name) <= MaxNameLen
    /\ snapshot' = Some(serialize_for_snapshotting(reversed))
    /\ last' = Call("serialize_for_snapshotting", <<>>, FALSE, "none",
                    reversed, Ok("unit"))
    /\ UNCHANGED <<registry, tracker, json_value_store, engine, issued,
                   evaluated>>

Restore ==
  /\ snapshot.tag = "Some"
  /\ update_with_snapshotted_data(snapshot.val)
  /\ last' = Call("update_with_snapshotted_data", <<>>, FALSE, "none",
                  <<>>, Ok("unit"))
  /\ UNCHANGED <<tracker, json_value_store, engine, snapshot, evaluated, issued>>

(***************************************************************************)
(* ModuleMap::load_dynamic_import                                          *)
(***************************************************************************)
\* RecursiveModuleLoad::dynamic_import: the load takes the next LoadId
NewLoadId == next_load_id

\* a future that takes every resolved target for a registered one
DynamicImportFutureUnchecked(id, specifier, asserted_module_type) ==
  LET resolve_result == LoaderResolve(specifier, <<>>) IN
  IF resolve_result.ok
  THEN [id |-> id, kind |-> "registered", specifier |-> specifier,
        type |-> asserted_module_type, result |-> Ok("load")]
  ELSE [id |-> id, kind |-> "resolve_failed", specifier |-> specifier,
        type |-> asserted_module_type, result |-> resolve_result]

\* a future that replaces the resolution error by one of its own
DynamicImportFutureOwnError(id, specifier, asserted_module_type) ==
  LET resolve_result == LoaderResolve(specifier, <<>>) IN
  IF resolve_result.ok
  THEN [id |-> id,
        kind |-> IF is_registered(by_name_js, by_name_json, info,
                                  resolve_result.val, asserted_module_type)
                      = Some(TRUE)
                 THEN "registered" ELSE "prepare",
        specifier |-> specifier,
        type |-> asserted_module_type,
        result |-> Ok("load")]
  ELSE [id |-> id, kind |-> "resolve_failed", specifier |-> specifier,
        type |-> asserted_module_type,
        result |-> Err([kind |-> "Other", error |-> "import failed"])]

\* the future load_dynamic_import pushes: "registered" completes at once
\* with Ok(load), "prepare" awaits load.prepare(), "resolve_failed"
\* completes at once with the resolution error
DynamicImportFuture(id, specifier, asserted_module_type) ==
  LET resolve_result == LoaderResolve(specifier, <<>>) IN
  IF resolve_result.ok
  THEN [id |-> id,
        kind |-> IF is_registered(by_name_js, by_name_json, info,
                                  resolve_result.val, asserted_module_type)
                      = Some(TRUE)
                 THEN "registered" ELSE "prepare",
        specifier |-> specifier,
        type |-> asserted_module_type,
        result |-> Ok("load")]
  ELSE [id |-> id, kind |-> "resolve_failed", specifier |-> specifier,
        type |-> asserted_module_type, result |-> resolve_result]

\* a load_dynamic_import that records every load under the first resolver
load_dynamic_import_first_resolver(specifier, asserted_module_type, resolver_handle) ==
  /\ next_load_id' = next_load_id + 1
  /\ dynamic_import_map' = MapInsert(dynamic_import_map, NewLoadId, 1)
  /\ preparing_dynamic_imports'
       = Append(preparing_dynamic_imports,
                DynamicImportFuture(NewLoadId, specifier,
                                    asserted_module_type))

load_dynamic_import(specifier, asserted_module_type, resolver_handle) ==
  /\ next_load_id' = next_load_id + 1
  /\ dynamic_import_map'
       = MapInsert(dynamic_import_map, NewLoadId, resolver_handle)
  /\ preparing_dynamic_imports'
       = Append(preparing_dynamic_imports,
                DynamicImportFuture(NewLoadId, specifier,
                                    asserted_module_type))

\* the host's import() callback: a new promise, whose resolver it passes
LoadDynamicImport ==
  \E specifier \in Specifiers, t \in AssertedModuleTypes :
    /\ Len(promises) < MaxImports
    /\ LoaderResolve(specifier, <<>>).ok
         => is_registered(by_name_js, by_name_json, info,
                          LoaderResolve(specifier, <<>>).val, t).tag = "Some"
    /\ promises' = Append(promises, [state |-> "pending"])
    /\ load_dynamic_import(specifier, t, Len(promises) + 1)
    /\ last' = Call("load_dynamic_import", specifier, FALSE, t,
                    Len(promises) + 1,
                    Ok(DynamicImportFuture(NewLoadId, specifier, t)))
    /\ UNCHANGED <<handles, info, by_name_js, by_name_json,
                   pending_dynamic_imports, json_value_store, fetches,
                   snapshot, evaluated, issued, top_level_loads>>

\* a has_pending_dynamic_imports that looks at the pending collection alone
has_pending_dynamic_imports_pending_only == pending_dynamic_imports # <<>>

\* has_pending_dynamic_imports
has_pending_dynamic_imports ==
  ~(preparing_dynamic_imports = <<>> /\ pending_dynamic_imports = <<>>)

(***************************************************************************)
(* The Graph Loader and the polling of the two collections (the code of    *)
(* RecursiveModuleLoad and of the runtime's event loop, modelled from the  *)
(* specification of the Graph Loader and of the Dynamic Import Tracker).   *)
(***************************************************************************)
RemoveAt(seq, i) == SubSeq(seq, 1, i - 1) \o SubSeq(seq, i + 1, Len(seq))

\* loader.fetch(name): the module "a" imports "./b" and, as JSON, "./a";
\* "b" has no imports; as JSON "a" is well-formed and "b" malformed
LoaderFetch(name, asserted_module_type) ==
  IF asserted_module_type = "Json"
  THEN [module_type |-> "Json",
        code |-> IF name = NameA THEN JsonBom ELSE JsonBad]
  ELSE [module_type |-> "JavaScript",
        code |-> IF name = NameA THEN SrcTwo ELSE SrcLeaf]

\* settle the promise of load id and remove its LoadId entry
SettleDynamicImport(id, outcome) ==
  /\ promises' = [promises EXCEPT ![dynamic_import_map[id]] = outcome]
  /\ dynamic_import_map' = MapRemove(dynamic_import_map, id)

\* a Graph Loader task in DynamicImport mode, its root resolved, its
\* worklist seeded with the root
GraphLoad(future) ==
  [id |-> future.id, kind |-> future.kind,
   root |-> LoaderResolve(future.specifier, <<>>).val,
   type |-> future.type,
   worklist |-> <<[name |-> LoaderResolve(future.specifier, <<>>).val,
                   type |-> future.type]>>,
   fetching |-> None,
   fetched |-> <<>>]

\* a future of the preparing collection completes: a failure rejects the
\* promise, a prepared load moves to the pending collection (a LoadId
\* without an entry stops the host: no step)
PollPreparing ==
  \E i \in DOMAIN preparing_dynamic_imports :
    LET future == preparing_dynamic_imports[i] IN
    /\ future.id \in DOMAIN dynamic_import_map
    /\ preparing_dynamic_imports' = RemoveAt(preparing_dynamic_imports, i)
    /\ IF future.result.ok
       THEN /\ pending_dynamic_imports'
                 = Append(pending_dynamic_imports, GraphLoad(future))
            /\ UNCHANGED <<promises, dynamic_import_map>>
       ELSE /\ SettleDynamicImport(
                 future.id,
                 [state |-> "rejected", error |-> future.result.err])
            /\ UNCHANGED pending_dynamic_imports
    /\ last' = Call("poll_preparing", future.specifier, FALSE, future.type,
                    dynamic_import_map[future.id], Ok(future))
    /\ UNCHANGED <<registry, json_value_store, fetches, snapshot, evaluated, issued,
                   top_level_loads>>

\* the requests of a module just registered that are not registered yet
RECURSIVE NewWork(_, _)
NewWork(requests, worklist) ==
  IF requests = <<>> THEN worklist
  ELSE LET entry == [name |-> Head(requests).specifier,
                     type |-> Head(requests).asserted_module_type]
       IN NewWork(
            Tail(requests),
            IF is_registered(by_name_js', by_name_json', info', entry.name,
                             entry.type) = Some(TRUE)
               \/ entry \in Range(worklist)
            THEN worklist ELSE Append(worklist, entry))

\* Expanding: the next worklist entry is skipped when it is registered,
\* fetched otherwise (the fetch suspends the task)
GraphExpand ==
  \E i \in DOMAIN pending_dynamic_imports :
    LET load == pending_dynamic_imports[i]
        entry == Head(load.worklist)
        registered ==
          is_registered(by_name_js, by_name_json, info, entry.name,
                        entry.type)
    IN
    /\ load.worklist # <<>>
    /\ load.fetching = None
    /\ registered.tag = "Some"
    /\ IF registered.val
       THEN /\ pending_dynamic_imports'
                 = [pending_dynamic_imports EXCEPT
                      ![i].worklist = Tail(load.worklist)]
            /\ UNCHANGED fetches
       ELSE /\ pending_dynamic_imports'
                 = [pending_dynamic_imports EXCEPT
                      ![i].worklist = Tail(load.worklist),
                      ![i].fetching = Some(entry),
                      ![i].fetched = Append(load.fetched, entry)]
            /\ fetches' = fetches + 1
    /\ last' = Call("graph_expand", entry.name, FALSE, entry.type,
                    dynamic_import_map[load.id],
                    Ok([id |-> load.id, kind |-> load.kind,
                        fetch |-> ~registered.val]))
    /\ UNCHANGED <<registry, dynamic_import_map, preparing_dynamic_imports,
                   json_value_store, promises, snapshot, evaluated, issued,
                   top_level_loads>>

\* the fetch of a task returns: the module is compiled and registered and
\* its requests join the worklist, or the task fails and its promise is
\* rejected
GraphRegister ==
  \E i \in DOMAIN pending_dynamic_imports :
    LET load == pending_dynamic_imports[i]
        entry == load.fetching.val
        source == LoaderFetch(entry.name, entry.type)
        result ==
          IF source.module_type = "Json"
          THEN new_json_module_result(entry.name, source.code)
          ELSE new_es_module_result(FALSE, entry.name, source.code)
    IN
    /\ load.fetching # None
    /\ IF source.module_type = "Json"
       THEN new_json_module(entry.name, source.code)
       ELSE new_es_module(FALSE, entry.name, source.code)
            /\ UNCHANGED json_value_store
    /\ IF result.ok
       THEN /\ pending_dynamic_imports'
                 = [pending_dynamic_imports EXCEPT
                      ![i].fetching = None,
                      ![i].worklist =
                        IF source.module_type = "Json" THEN load.worklist
                        ELSE NewWork(result.val.requests, load.worklist)]
            /\ UNCHANGED <<promises, dynamic_import_map>>
       ELSE /\ pending_dynamic_imports' = RemoveAt(pending_dynamic_imports, i)
            /\ SettleDynamicImport(
                 load.id, [state |-> "rejected", error |-> result.err])
    /\ last' = Call("graph_register", entry.name, FALSE, entry.type,
                    dynamic_import_map[load.id],
                    Ok([id |-> load.id, kind |-> load.kind,
                        registered |-> Returned(result)]))
    /\ Issue(Returned(result))
    /\ UNCHANGED <<next_load_id, preparing_dynamic_imports, fetches,
                   snapshot, evaluated, top_level_loads>>

\* Complete: the worklist is empty; the promise is fulfilled with the root
\* ModuleId and the LoadId entry removed
GraphComplete ==
  \E i \in DOMAIN pending_dynamic_imports :
    LET load == pending_dynamic_imports[i]
        root_module_id ==
          get_id(by_name(by_name_js, by_name_json, load.type), load.root)
    IN
    /\ load.worklist = <<>>
    /\ load.fetching = None
    /\ root_module_id.tag = "Some"
    /\ pending_dynamic_imports' = RemoveAt(pending_dynamic_imports, i)
    /\ SettleDynamicImport(
         load.id, [state |-> "fulfilled", id |-> root_module_id.val])
    /\ last' = Call("graph_complete", load.root, FALSE, load.type,
                    dynamic_import_map[load.id],
                    Ok([id |-> load.id, kind |-> load.kind,
                        fetched |-> load.fetched,
                        module |-> root_module_id.val]))
    /\ UNCHANGED <<registry, preparing_dynamic_imports, json_value_store,
                   fetches, snapshot, evaluated, issued, top_level_loads>>

(***************************************************************************)
(* ModuleMap::resolve_callback                                             *)
(***************************************************************************)
\* get_handle
get_handle(id) ==
  IF id + 1 \in DOMAIN handles THEN Some(handles[id + 1]) ELSE None

\* a resolve_callback that reports a failed resolution as not found
resolve_callback_lenient(specifier, referrer, import_assertions) ==
  LET resolved_specifier == LoaderResolve(specifier, referrer)
      module_type == AssertedTypeOf(import_assertions)
      id == IF resolved_specifier.ok
            THEN get_id(by_name(by_name_js, by_name_json, module_type),
                        resolved_specifier.val)
            ELSE None
  IN
  CASE id.tag = "Some" -> get_handle(id.val)
    [] id.tag = "None" -> None
    [] OTHER -> [tag |-> "Loop"]

\* what resolve_callback returns: Some(handle), None, "Panic" for the
\* expect() of a failed resolution, "Loop" for a get_id that never returns
resolve_callback(specifier, referrer, import_assertions) ==
  LET resolved_specifier == LoaderResolve(specifier, referrer)
      module_type == AssertedTypeOf(import_assertions)
      id == IF resolved_specifier.ok
            THEN get_id(by_name(by_name_js, by_name_json, module_type),
                        resolved_specifier.val)
            ELSE None
  IN
  CASE ~resolved_specifier.ok -> [tag |-> "Panic"]
    [] id.tag = "Some" -> get_handle(id.val)
    [] id.tag = "None" -> None
    [] OTHER -> [tag |-> "Loop"]

\* the engine calls resolve_callback while it instantiates a module
ResolveCallback ==
  \E specifier \in Specifiers, import_assertions \in {"none", "json"} :
    /\ resolve_callback(specifier, <<>>, import_assertions).tag # "Loop"
    /\ last' = Call("resolve_callback", specifier, FALSE,
                    AssertedTypeOf(import_assertions), import_assertions,
                    resolve_callback(specifier, <<>>, import_assertions))
    /\ last' # last
    /\ UNCHANGED <<registry, tracker, json_value_store, engine, snapshot, evaluated,
                   issued>>

(***************************************************************************)
(* ModuleMap::load_main, ModuleMap::load_side and the Graph Loader tasks   *)
(* they start (RecursiveModuleLoad in Main and Side mode, modelled from    *)
(* the specification of the Graph Loader). The caller holds the load and   *)
(* awaits it before it starts another top-level load.                      *)
(***************************************************************************)
\* a Graph Loader task in Main or Side mode, its root resolved; registered
\* lists the ModuleIds the task has registered
TopLevelLoad(id, mode, root) ==
  [id |-> id, kind |-> mode, root |-> root, type |-> "JavaScriptOrWasm",
   worklist |-> <<[name |-> root, type |-> "JavaScriptOrWasm"]>>,
   fetching |-> None, fetched |-> <<>>, registered |-> <<>>]

\* load_main / load_side: the load takes the next LoadId and is prepared,
\* which resolves its root; a root that does not resolve is returned as the
\* error
LoadTopLevel ==
  \E mode \in {"Main", "Side"}, specifier \in {SpecM, SpecA, SpecBad} :
    LET root == LoaderResolve(specifier, <<>>) IN
    /\ top_level_loads = <<>>
    /\ next_load_id <= MaxLoads
    /\ next_load_id' = next_load_id + 1
    /\ top_level_loads'
         = IF root.ok THEN <<TopLevelLoad(NewLoadId, mode, root.val)>>
           ELSE <<>>
    /\ last' = Call(IF mode = "Main" THEN "load_main" ELSE "load_side",
                    specifier, mode = "Main", "JavaScriptOrWasm", NewLoadId,
                    IF root.ok THEN Ok(NewLoadId) ELSE root)
    /\ UNCHANGED <<handles, info, by_name_js, by_name_json, tracker,
                   json_value_store, promises, fetches, snapshot, evaluated, issued>>

\* an ES module source that imports the given specifiers
SrcOf(specifiers) ==
  [compiles |-> TRUE,
   imports |-> [k \in DOMAIN specifiers |-> Import(specifiers[k], "none")]]

SrcJsonB == [compiles |-> TRUE, imports |-> <<Import(SpecB, "json")>>]

\* what loader.load may return for a worklist entry: a source of any shape
\* (so that chains, diamonds and cycles over "m", "a", "b" arise), or a
\* fetch error
FetchResults(entry) ==
  {Err([kind |-> "Other", error |-> [kind |-> "Fetch", name |-> entry.name]])}
    \cup
    IF entry.type = "Json" THEN {Ok(JsonGood), Ok(JsonBad)}
    ELSE {Ok(source) :
            source \in {SrcLeaf, SrcBroken, SrcCss, SrcUnresolved, SrcJsonB,
                        SrcOf(<<SpecA>>), SrcOf(<<SpecB>>), SrcOf(<<SpecM>>),
                        SrcOf(<<SpecA, SpecB>>), SrcOf(<<SpecB, SpecA>>)}}

\* Expanding: the next worklist entry is skipped when it is registered,
\* fetched otherwise
TopExpand ==
  \E i \in DOMAIN top_level_loads :
    LET load == top_level_loads[i]
        entry == Head(load.worklist)
        registered ==
          is_registered(by_name_js, by_name_json, info, entry.name,
                        entry.type)
    IN
    /\ load.worklist # <<>>
    /\ load.fetching = None
    /\ registered.tag = "Some"
    /\ IF registered.val
       THEN /\ top_level_loads'
                 = [top_level_loads EXCEPT ![i].worklist = Tail(load.worklist)]
            /\ UNCHANGED fetches
       ELSE /\ top_level_loads'
                 = [top_level_loads EXCEPT
                      ![i].worklist = Tail(load.worklist),
                      ![i].fetching = Some(entry),
                      ![i].fetched = Append(load.fetched, entry)]
            /\ fetches' = fetches + 1
    /\ last' = Call("top_expand", entry.name, FALSE, entry.type, load,
                    Ok([id |-> load.id, kind |-> load.kind,
                        fetch |-> ~registered.val]))
    /\ UNCHANGED <<registry, tracker, json_value_store, promises, snapshot, evaluated,
                   issued>>

\* the fetch of the task returns: a fetch error fails the task; a source is
\* compiled and registered (the root of a Main load with main = true) and
\* its requests join the worklist, or the error fails the task
TopRegister ==
  \E i \in DOMAIN top_level_loads :
    LET load == top_level_loads[i]
        entry == load.fetching.val
    IN
    /\ load.fetching # None
    /\ \E fetched \in FetchResults(entry) :
         LET main == /\ load.kind = "Main"
                     /\ entry = [name |-> load.root, type |-> load.type]
             result ==
               IF ~fetched.ok THEN fetched
               ELSE IF entry.type = "Json"
               THEN new_json_module_result(entry.name, fetched.val)
               ELSE new_es_module_result(main, entry.name, fetched.val)
         IN
         /\ IF ~fetched.ok
            THEN UNCHANGED <<handles, info, by_name_js, by_name_json,
                             json_value_store>>
            ELSE IF entry.type = "Json"
            THEN new_json_module(entry.name, fetched.val)
            ELSE (/\ new_es_module(main, entry.name, fetched.val)
                  /\ UNCHANGED json_value_store)
         /\ top_level_loads'
              = IF result.ok
                THEN [top_level_loads EXCEPT
                        ![i].fetching = None,
                        ![i].worklist =
                          IF entry.type = "Json" THEN load.worklist
                          ELSE NewWork(result.val.requests, load.worklist),
                        ![i].registered =
                          Append(load.registered, result.val.id)]
                ELSE RemoveAt(top_level_loads, i)
         /\ last' = Call("top_register", entry.name, main, entry.type,
                         fetched,
                         Ok([id |-> load.id, kind |-> load.kind,
                             registered |-> Returned(result),
                             load |-> load]))
         /\ Issue(Returned(result))
    /\ UNCHANGED <<next_load_id, tracker, promises, fetches, snapshot, evaluated>>

\* Complete: the worklist is empty; the task's result is the root ModuleId
TopComplete ==
  \E i \in DOMAIN top_level_loads :
    LET load == top_level_loads[i]
        root_module_id ==
          get_id(by_name(by_name_js, by_name_json, load.type), load.root)
    IN
    /\ load.worklist = <<>>
    /\ load.fetching = None
    /\ root_module_id.tag = "Some"
    /\ top_level_loads' = RemoveAt(top_level_loads, i)
    /\ last' = Call("top_complete", load.root, load.kind = "Main", load.type,
                    load,
                    Ok([id |-> load.id, kind |-> load.kind,
                        module |-> root_module_id.val]))
    /\ UNCHANGED <<registry, tracker, json_value_store, promises, fetches,
                   snapshot, evaluated, issued>>

(***************************************************************************)
(* Specifications.                                                         *)
(***************************************************************************)
\* modules are registered under "a" and "b"; aliases use all three names
NewEsModule == NewEsModuleOf({NameA, NameB}, EsSources \ {SrcLeaf})
NewJsonModule == NewJsonModuleOf({NameA, NameB}, JsonSources)
InjectHandle == InjectHandleOf({NameA, NameB})
AliasCall == AliasOf(Names, Names)

\* the registry under its own operations
Next ==
  \/ NewEsModule
  \/ NewJsonModule
  \/ InjectHandle
  \/ AliasCall
  \/ Clear

Spec == Init /\ [][Next]_vars

\* the registry and the snapshot codec
SnapNewEsModule == NewEsModuleOf({NameA}, {SrcTwo})
SnapInjectHandle == InjectHandleOf({NameB, NameE})
SnapAlias == AliasOf({NameB}, {NameA, NameE})

NextSnapshot ==
  \/ SnapNewEsModule
  \/ SnapInjectHandle
  \/ SnapAlias
  \/ Clear
  \/ Serialize
  \/ Restore

SpecSnapshot == Init /\ [][NextSnapshot]_vars

\* the registry, dynamic imports and the Graph Loader
LoadNewEsModule == NewEsModuleOf({NameA, NameB}, {SrcLeaf})
LoadNewJsonModule == NewJsonModuleOf({NameA}, {JsonGood})

NextLoad ==
  \/ LoadNewEsModule
  \/ LoadNewJsonModule
  \/ Clear
  \/ LoadDynamicImport
  \/ PollPreparing
  \/ GraphExpand
  \/ GraphRegister
  \/ GraphComplete

SpecLoad == Init /\ [][NextLoad]_vars

\* top-level loads, one at a time, over every shape of dependency graph
NextGraph ==
  \/ LoadTopLevel
  \/ TopExpand
  \/ TopRegister
  \/ TopComplete

SpecGraph == Init /\ [][NextGraph]_vars

\* JSON modules: made, evaluated, cleared, snapshotted and restored
JsonNewJsonModule == NewJsonModuleOf({NameA, NameB}, JsonSources)

\* a decode leaves the JSON value store as it is: the values it holds are
\* bounded here
JsonRestore ==
  /\ Cardinality(DOMAIN json_value_store) <= MaxModules
  /\ Restore

NextJson ==
  \/ JsonNewJsonModule
  \/ JsonModuleEvaluationSteps
  \/ Clear
  \/ Serialize
  \/ JsonRestore

SpecJson == Init /\ [][NextJson]_vars

\* the registry as the engine sees it while linking
LinkInjectHandle == InjectHandleOf({NameA, NameB})
LinkAlias == AliasOf({NameB}, {NameA, NameE})

NextLink ==
  \/ LinkInjectHandle
  \/ LinkAlias
  \/ ResolveCallback
  \/ Clear

SpecLink == Init /\ [][NextLink]_vars

\* the LoadId counter under loads, dynamic imports, clear and the codec
NextLoadId ==
  \/ LoadTopLevel
  \/ LoadDynamicImport
  \/ PollPreparing
  \/ Clear
  \/ Serialize
  \/ Restore

SpecLoadId == Init /\ [][NextLoadId]_vars

\* dynamic imports without clear(), the event loop polling both collections
\* on every turn; the host registers "b" itself
FairNewEsModule == NewEsModuleOf({NameB}, {SrcLeaf})

NextLoadFair ==
  \/ FairNewEsModule
  \/ LoadDynamicImport
  \/ PollPreparing
  \/ GraphExpand
  \/ GraphRegister
  \/ GraphComplete

SpecLoadFair ==
  /\ Init
  /\ [][NextLoadFair]_vars
  /\ WF_vars(PollPreparing)
  /\ WF_vars(GraphExpand)
  /\ WF_vars(GraphRegister)
  /\ WF_vars(GraphComplete)

(***************************************************************************)
(* Properties.                                                             *)
(***************************************************************************)
MainModules == {i \in DOMAIN info : info[i].main}

RegisterOps == {"new_es_module", "new_json_module", "inject_handle"}

\* the names reached from name by following Alias entries of map, computed
\* as a closure (not as get_id walks)
RECURSIVE AliasClosure(_, _, _)
AliasClosure(map, reached, rounds) ==
  IF rounds = 0 THEN reached
  ELSE AliasClosure(
         map,
         reached \cup {map[k].target : k \in reached \cap AliasKeys(map)},
         rounds - 1)

\* the ends of the alias chain from name: the reached names that are no
\* Alias entry (none when the chain runs into a cycle)
ChainEnds(map, name) ==
  {e \in AliasClosure(map, {name}, Cardinality(DOMAIN map)) :
     e \notin AliasKeys(map)}

AllNames == Names \cup RegistryNames

\* C1: at most one ModuleInfo has main = true, and a new_es_module call with
\* main = true made while a main module exists leaves the ModuleInfo list
\* as it is.
C1_AtMostOneMain ==
  /\ [](Cardinality(MainModules) <= 1)
  /\ [][(MainModules # {} /\ last'.op = "new_es_module" /\ last'.main)
          => info' = info]_vars

\* C1 witness: a second main registration was refused
C1_Witness ==
  /\ last.op = "new_es_module"
  /\ last.main
  /\ ~last.ret.ok
  /\ last.ret.err.kind = "Other"
  /\ last.ret.err.error.kind = "DuplicateMain"
  /\ Cardinality(MainModules) = 1

\* every import of source passes validation and resolves
ImportsFine(source, name) ==
  \A k \in DOMAIN source.imports :
    /\ AssertionsValid(source.imports[k].assertion)
    /\ LoaderResolve(source.imports[k].specifier, name).ok

\* C2 as stated: a new_es_module call with main = true made while a main
\* module exists returns the duplicate-main error carrying the existing and
\* the attempted name.
C2_Original ==
  [][(MainModules # {} /\ last'.op = "new_es_module" /\ last'.main)
       => last'.ret
            = Err(DuplicateMain(
                    last'.name,
                    info[CHOOSE i \in MainModules : TRUE].name))]_vars

\* C2 amended: such a call fails; when the source compiles and every import
\* of it validates and resolves, the error is the duplicate-main error
\* carrying the attempted name and the name of the existing main module.
C2_DuplicateMainError ==
  [][(MainModules # {} /\ last'.op = "new_es_module" /\ last'.main)
       => /\ ~last'.ret.ok
          /\ (last'.arg.compiles /\ ImportsFine(last'.arg, last'.name))
               => last'.ret.err
                    = [kind |-> "Other",
                       error |->
                         [kind |-> "DuplicateMain",
                          attempted |-> last'.name,
                          existing |->
                            info[CHOOSE i \in MainModules : TRUE].name]]]_vars

\* C2 witness: the duplicate-main error names two different modules
C2_Witness ==
  /\ last.op = "new_es_module"
  /\ ~last.ret.ok
  /\ last.ret.err.kind = "Other"
  /\ last.ret.err.error.kind = "DuplicateMain"
  /\ last.ret.err.error.attempted = last.name
  /\ last.ret.err.error.existing # last.name
  /\ \E i \in MainModules : info[i].name = last.ret.err.error.existing

\* handles and info are index-aligned and info[i].id = i (zero-based)
IndexAligned ==
  /\ Len(handles) = Len(info)
  /\ \A i \in DOMAIN info : info[i].id = i - 1

\* C3 as stated: handles and info are index-aligned with info[i].id = i, and
\* the k-th successful registration since new() or the last clear() returns
\* ModuleId k-1, an id not handed out before.
C3_Original ==
  /\ [](IndexAligned)
  /\ [][(last'.op \in RegisterOps /\ last'.ret.ok)
          => /\ last'.ret.val = Cardinality(issued)
             /\ last'.ret.val \notin issued]_vars

\* C3 amended: handles and info are index-aligned with info[i].id = i, and a
\* successful registration returns the number of modules held before it
\* (those restored from a snapshot included), the id of no module held, and
\* appends that one module.
C3_DenseIds ==
  /\ [](IndexAligned)
  /\ [][(last'.op \in RegisterOps /\ last'.ret.ok)
          => /\ last'.ret.val = Len(info)
             /\ \A i \in DOMAIN info : info[i].id # last'.ret.val
             /\ Len(info') = Len(info) + 1
             /\ info'[Len(info')].id = last'.ret.val
             /\ SubSeq(info', 1, Len(info)) = info]_vars

\* C3 witness: the second registration returned ModuleId 1 while a snapshot
\* exists
C3_Witness ==
  /\ last.op \in RegisterOps
  /\ last.ret.ok
  /\ last.ret.val = 1
  /\ Len(info) = 2
  /\ info[2].id = 1
  /\ snapshot # None

\* C4: for a name whose alias chain in a by-name mapping is acyclic, get_id
\* returns the ModuleId of the Concrete entry at the end of the chain, and
\* None exactly when the end of the chain has no entry.
C4_GetIdFollowsChain ==
  \A t \in AssertedModuleTypes, name \in AllNames :
    LET map == by_name(by_name_js, by_name_json, t) IN
    \A e \in ChainEnds(map, name) :
      /\ e \in DOMAIN map => get_id(map, name) = Some(map[e].id)
      /\ e \notin DOMAIN map <=> get_id(map, name) = None

\* C4 witness: a chain of two Alias entries ending in a Concrete entry
C4_Witness ==
  \E t \in AssertedModuleTypes, name \in Names :
    LET map == by_name(by_name_js, by_name_json, t) IN
    /\ name \in AliasKeys(map)
    /\ map[name].target \in AliasKeys(map)
    /\ map[map[name].target].target \in DOMAIN map
    /\ map[map[map[name].target].target].tag = "Mod"
    /\ get_id(map, name) = Some(map[map[map[name].target].target].id)

\* the direct entry of (name, t) is Concrete and its module has type t
ConcreteEntry(name, t) ==
  LET map == by_name(by_name_js, by_name_json, t) IN
  /\ name \in DOMAIN map
  /\ map[name].tag = "Mod"
  /\ map[name].id + 1 \in DOMAIN info
  /\ TypeInto(info[map[name].id + 1].module_type) = t

\* C5 as stated: is_registered(name, type) is true iff the entry of
\* (name, type) is a Concrete entry whose module has that type; false for an
\* Alias entry.
C5_Original ==
  \A t \in AssertedModuleTypes, name \in AllNames :
    (is_registered(by_name_js, by_name_json, info, name, t) = Some(TRUE))
      <=> ConcreteEntry(name, t)

\* C5 amended: is_registered(name, type) is true iff the alias chain from
\* name ends at a Concrete entry whose module has that type: true also for
\* an Alias entry whose chain ends at such an entry, false for an absent
\* entry and for a chain that ends at no entry or never ends.
C5_IsRegistered ==
  \A t \in AssertedModuleTypes, name \in AllNames :
    (is_registered(by_name_js, by_name_json, info, name, t) = Some(TRUE))
      <=> \E e \in ChainEnds(by_name(by_name_js, by_name_json, t), name) :
            ConcreteEntry(e, t)

\* C5 witness: an Alias entry that is registered through its target
C5_Witness ==
  \E t \in AssertedModuleTypes, name \in Names :
    /\ name \in AliasKeys(by_name(by_name_js, by_name_json, t))
    /\ is_registered(by_name_js, by_name_json, info, name, t) = Some(TRUE)

\* C6: a registration, an injection or an alias under one asserted type
\* leaves the by-name mapping of the other type unchanged.
C6_MappingsIndependent ==
  [][(last'.op \in RegisterOps \cup {"alias"})
       => /\ last'.type = "Json" => by_name_js' = by_name_js
          /\ last'.type = "JavaScriptOrWasm"
               => by_name_json' = by_name_json]_vars

\* C6 witness: one name is a Script module and, after an alias under Json,
\* resolves to another module as Json
C6_Witness ==
  \E name \in Names :
    /\ last.op = "alias"
    /\ last.type = "Json"
    /\ get_id(by_name_js, name).tag = "Some"
    /\ get_id(by_name_json, name).tag = "Some"
    /\ get_id(by_name_js, name) # get_id(by_name_json, name)

\* the alias targets the registry holds
AliasTargets ==
  {by_name_js[k].target : k \in AliasKeys(by_name_js)}
    \cup {by_name_json[k].target : k \in AliasKeys(by_name_json)}

\* C7: decoding the encoding of a registry together with its own handle list
\* yields that registry: the same next-load-id counter, ModuleInfo sequence,
\* by-name mappings and handles.
C7_RoundTrip ==
  [][(/\ last.op = "serialize_for_snapshotting"
      /\ last'.op = "update_with_snapshotted_data")
       => registry' = registry]_vars

\* the round trip of a registry whose alias targets are all ASCII
RoundTripAscii ==
  [][(/\ last.op = "serialize_for_snapshotting"
      /\ last'.op = "update_with_snapshotted_data"
      /\ \A target \in AliasTargets : \A k \in DOMAIN target : target[k] < 128)
       => registry' = registry]_vars

\* a restored registry with a module, its requests and an ASCII alias
RoundTripAsciiWitness ==
  /\ last.op = "update_with_snapshotted_data"
  /\ \E i \in DOMAIN info : info[i].requests # <<>>
  /\ NameA \in AliasTargets

\* the state ModuleMap::new constructs
FreshRegistry ==
  /\ handles = <<>>
  /\ info = <<>>
  /\ by_name_js = EmptyMap
  /\ by_name_json = EmptyMap
  /\ next_load_id = 1
  /\ dynamic_import_map = EmptyMap
  /\ preparing_dynamic_imports = <<>>
  /\ pending_dynamic_imports = <<>>
  /\ json_value_store = EmptyMap

\* the promises no resolver of the tracker can settle any more
Dropped ==
  {p \in DOMAIN promises :
     promises[p].state = "pending" /\ p \notin Range(dynamic_import_map)}

\* C8: clear() leaves the state of a freshly constructed registry (no
\* modules, no handles, empty by-name mappings, next load id 1, empty JSON
\* value store, no dynamic import in flight); it settles no promise, and a
\* promise whose import it dropped is never fulfilled or rejected.
C8_ClearIsFresh ==
  /\ [](last.op = "clear" => FreshRegistry)
  /\ [][last'.op = "clear" => promises' = promises]_vars
  /\ [][\A p \in Dropped :
          p \in DOMAIN promises' /\ promises'[p] = promises[p]]_vars

\* C8 witness: after a clear that dropped an import whose load had fetched,
\* a later import was completed while the dropped promise is still pending
C8_Witness ==
  /\ last.op = "graph_complete"
  /\ Dropped # {}
  /\ \E p \in DOMAIN promises : promises[p].state = "fulfilled"

\* the steps taken on behalf of one dynamic import
ImportSteps ==
  {"poll_preparing", "graph_expand", "graph_register", "graph_complete"}

\* C9: a dynamic import whose resolved target is registered when it starts
\* completes with success: no step taken for it fetches or registers a
\* module, none rejects its promise, and its completion fulfils the promise
\* with the ModuleId of the target.
C9_RegisteredImportNoFetch ==
  /\ [](\A i \in DOMAIN preparing_dynamic_imports :
          LET future == preparing_dynamic_imports[i] IN
          future.kind = "registered"
            => /\ future.result = Ok("load")
               /\ is_registered(by_name_js, by_name_json, info,
                                LoaderResolve(future.specifier, <<>>).val,
                                future.type) = Some(TRUE))
  /\ [](\A i \in DOMAIN pending_dynamic_imports :
          LET load == pending_dynamic_imports[i] IN
          load.kind = "registered"
            => load.fetching = None /\ load.fetched = <<>>)
  /\ [][(last'.op \in ImportSteps /\ last'.ret.val.kind = "registered")
          => /\ fetches' = fetches
             /\ info' = info
             /\ handles' = handles
             /\ last'.op # "graph_register"
             /\ last'.op = "graph_complete"
                  => /\ last'.ret.val.fetched = <<>>
                     /\ promises'
                          = [promises EXCEPT
                               ![last'.arg] =
                                 [state |-> "fulfilled",
                                  id |-> get_id(
                                           by_name(by_name_js, by_name_json,
                                                   last'.type),
                                           last'.name).val]]
             /\ last'.op # "graph_complete" => promises' = promises]_vars

\* C9 witness: the import of a registered module was fulfilled with its
\* ModuleId and no fetch was ever made
C9_Witness ==
  /\ last.op = "graph_complete"
  /\ last.ret.val.kind = "registered"
  /\ promises[last.arg] = [state |-> "fulfilled", id |-> last.ret.val.module]
  /\ info[last.ret.val.module + 1].name = last.name
  /\ fetches = 0

\* C10: a dynamic import whose specifier the Loader fails to resolve
\* completes with that resolution error: it never becomes a Graph Loader
\* task, no expansion, fetch or registration is made for it, its completion
\* rejects its promise with the error and leaves the modules of the
\* registry as they are, and a rejected promise is never changed.
C10_ResolveFailureRejects ==
  /\ [](\A i \in DOMAIN preparing_dynamic_imports :
          LET future == preparing_dynamic_imports[i] IN
          ~LoaderResolve(future.specifier, <<>>).ok
            => /\ future.kind = "resolve_failed"
               /\ future.result = LoaderResolve(future.specifier, <<>>))
  /\ [](\A i \in DOMAIN pending_dynamic_imports :
          pending_dynamic_imports[i].kind # "resolve_failed")
  /\ [][(last'.op \in ImportSteps /\ last'.ret.val.kind = "resolve_failed")
          => /\ last'.op = "poll_preparing"
             /\ promises'
                  = [promises EXCEPT
                       ![last'.arg] =
                         [state |-> "rejected",
                          error |-> LoaderResolve(last'.name, <<>>).err]]
             /\ last'.ret.val.id \notin DOMAIN dynamic_import_map'
             /\ <<handles, info, by_name_js, by_name_json, json_value_store,
                  fetches, pending_dynamic_imports>>'
                  = <<handles, info, by_name_js, by_name_json,
                      json_value_store, fetches, pending_dynamic_imports>>]_vars
  /\ [][\A p \in DOMAIN promises :
          promises[p].state = "rejected"
            => p \in DOMAIN promises' /\ promises'[p] = promises[p]]_vars

\* C10 witness: the promise of an import of an unresolvable specifier was
\* rejected with the resolution error while the registry holds a module
C10_Witness ==
  /\ last.op = "poll_preparing"
  /\ last.ret.val.kind = "resolve_failed"
  /\ promises[last.arg]
       = [state |-> "rejected",
          error |-> [kind |-> "Resolution", specifier |-> last.name]]
  /\ info # <<>>

\* the steps that complete a dynamic import, with the outcome they carry
Completes(call) ==
  \/ call.op = "graph_complete"
  \/ call.op = "graph_register" /\ ~call.ret.val.registered.ok
  \/ call.op = "poll_preparing" /\ ~call.ret.val.result.ok

Outcome(call) ==
  CASE call.op = "graph_complete"
         -> [state |-> "fulfilled", id |-> call.ret.val.module]
    [] call.op = "graph_register"
         -> [state |-> "rejected", error |-> call.ret.val.registered.err]
    [] OTHER -> [state |-> "rejected", error |-> call.ret.val.result.err]

LoadOps == {"load_main", "load_side", "load_dynamic_import"}

\* the LoadId a load operation took
LoadIdOf(call) ==
  IF call.op = "load_dynamic_import" THEN call.ret.val.id ELSE call.arg

\* every key of the LoadId-to-promise map is below the counter
KeysBelowCounter ==
  \A id \in DOMAIN dynamic_import_map : id < next_load_id

\* C12 as stated: the counter is 1 in a fresh registry, every load takes a
\* LoadId above all earlier ones, a dynamic import never takes a key the
\* LoadId-to-promise map holds, and a restore sets the counter to the stored
\* value.
C12_Original ==
  /\ [](last.op \in {"new", "clear"} => next_load_id = 1)
  /\ [][last'.op \in LoadOps
          => /\ LoadIdOf(last') = next_load_id
             /\ next_load_id' = next_load_id + 1]_vars
  /\ [][last'.op = "load_dynamic_import"
          => next_load_id \notin DOMAIN dynamic_import_map]_vars
  /\ [][last'.op = "update_with_snapshotted_data"
          => next_load_id' = snapshot.val.module_map_data[1].val]_vars

\* C12 amended: the counter is 1 after new() and clear(); every load takes
\* the counter's value and raises the counter by one; the counter changes
\* otherwise only by clear() and by a restore, which sets it to the stored
\* value and leaves the LoadId-to-promise map alone; every step but a
\* restore made while that map holds entries keeps all keys of the map
\* below the counter, so that imports in flight share no key.
C12_LoadIds ==
  /\ [](last.op \in {"new", "clear"} => next_load_id = 1)
  /\ [][last'.op \in LoadOps
          => /\ LoadIdOf(last') = next_load_id
             /\ next_load_id' = next_load_id + 1]_vars
  /\ [][next_load_id' # next_load_id
          => last'.op \in LoadOps \cup {"clear",
                                        "update_with_snapshotted_data"}]_vars
  /\ [][last'.op = "update_with_snapshotted_data"
          => /\ next_load_id' = snapshot.val.module_map_data[1].val
             /\ dynamic_import_map' = dynamic_import_map]_vars
  /\ [][(/\ KeysBelowCounter
         /\ ~(/\ last'.op = "update_with_snapshotted_data"
              /\ dynamic_import_map # EmptyMap))
          => /\ KeysBelowCounter'
             /\ last'.op = "load_dynamic_import"
                  => next_load_id \notin DOMAIN dynamic_import_map]_vars

\* C12 witness: after a top-level load and a restore of a counter above 1,
\* two dynamic imports are in flight under different LoadIds
C12_Witness ==
  /\ last.op = "load_dynamic_import"
  /\ snapshot # None
  /\ snapshot.val.module_map_data[1].val > 1
  /\ Cardinality(DOMAIN dynamic_import_map) = 2
  /\ KeysBelowCounter
  /\ \E i, j \in DOMAIN preparing_dynamic_imports :
       preparing_dynamic_imports[i].id # preparing_dynamic_imports[j].id

\* the (name, type) a ModuleInfo is registered under
EntryOf(module_info) ==
  [name |-> module_info.name, type |-> TypeInto(module_info.module_type)]

\* the (name, type) pairs the modules registered under the entries request
RequestedBy(entries) ==
  UNION {{[name |-> r.specifier, type |-> r.asserted_module_type] :
            r \in Range(info[i].requests)} :
           i \in {j \in DOMAIN info : EntryOf(info[j]) \in entries}}

\* the (name, type) pairs reached from the entries through the requests of
\* the registered modules
RECURSIVE ReachableFrom(_, _)
ReachableFrom(entries, rounds) ==
  IF rounds = 0 THEN entries
  ELSE ReachableFrom(entries \cup RequestedBy(entries), rounds - 1)

\* the task has fetched no entry twice, and the modules it has registered
\* are, in order, the entries it fetched
FetchedOnce(load) ==
  /\ \A j, k \in DOMAIN load.fetched :
       load.fetched[j] = load.fetched[k] => j = k
  /\ Len(load.registered)
       = Len(load.fetched) - (IF load.fetching = None THEN 0 ELSE 1)
  /\ \A k \in DOMAIN load.registered :
       /\ load.registered[k] + 1 \in DOMAIN info
       /\ EntryOf(info[load.registered[k] + 1]) = load.fetched[k]

\* C13: a Graph Loader task fetches an entry only when it is not registered
\* and was not fetched by the task before, registers each entry it fetched
\* as one module, and no two modules share a (name, type); when the task
\* completes every request of the modules it registered is registered and
\* main is set on the root of a Main load alone; a task that completes in a
\* registry holding only its own modules has fetched and registered each
\* (name, type) reachable from its root exactly once.
C13_FetchedOnce ==
  /\ [](\A i \in DOMAIN top_level_loads : FetchedOnce(top_level_loads[i]))
  /\ [](\A i, j \in DOMAIN info :
          EntryOf(info[i]) = EntryOf(info[j]) => i = j)
  /\ [][(last'.op = "top_expand" /\ last'.ret.val.fetch)
          => /\ fetches' = fetches + 1
             /\ is_registered(by_name_js, by_name_json, info, last'.name,
                              last'.type) = Some(FALSE)
             /\ [name |-> last'.name, type |-> last'.type]
                  \notin Range(last'.arg.fetched)]_vars
  /\ [][last'.op = "top_complete"
          => LET load == last'.arg IN
             /\ FetchedOnce(load)
             /\ \A k \in DOMAIN load.registered :
                  LET module_info == info[load.registered[k] + 1] IN
                  /\ module_info.main
                       <=> /\ load.kind = "Main"
                           /\ load.fetched[k]
                                = [name |-> load.root, type |-> load.type]
                  /\ \A r \in Range(module_info.requests) :
                       is_registered(by_name_js, by_name_json, info,
                                     r.specifier, r.asserted_module_type)
                         = Some(TRUE)
             /\ Len(info) = Len(load.registered)
                  => /\ Range(load.fetched)
                          = ReachableFrom(
                              {[name |-> load.root, type |-> load.type]},
                              Len(info))
                     /\ Cardinality(Range(load.fetched)) = Len(info)]_vars

\* C13 witness: a Main load of "m", which imports "a", which imports "b",
\* completed with three fetches and three modules, main on "m" alone
C13_Witness ==
  /\ last.op = "top_complete"
  /\ last.ret.val.kind = "Main"
  /\ fetches = 3
  /\ Len(info) = 3
  /\ <<info[1].name, info[2].name, info[3].name>> = <<NameM, NameA, NameB>>
  /\ <<info[1].main, info[2].main, info[3].main>> = <<TRUE, FALSE, FALSE>>
  /\ info[1].requests = <<ModuleRequest(NameA, "JavaScriptOrWasm")>>
  /\ info[2].requests = <<ModuleRequest(NameB, "JavaScriptOrWasm")>>
  /\ info[3].requests = <<>>

\* a completed load of a cycle: "m" imports "a" and "a" imports "m"
CycleLoaded ==
  /\ last.op = "top_complete"
  /\ Len(info) = 2
  /\ info[1].name = NameM
  /\ info[1].requests = <<ModuleRequest(NameA, "JavaScriptOrWasm")>>
  /\ info[2].requests = <<ModuleRequest(NameM, "JavaScriptOrWasm")>>

\* a completed load in which "b" is reached by two paths: "m" imports "a"
\* and "b", and "a" imports "b"
SharedDependencyLoaded ==
  /\ last.op = "top_complete"
  /\ Len(info) = 3
  /\ info[1].requests = <<ModuleRequest(NameA, "JavaScriptOrWasm"),
                          ModuleRequest(NameB, "JavaScriptOrWasm")>>
  /\ info[2].name = NameA
  /\ info[2].requests = <<ModuleRequest(NameB, "JavaScriptOrWasm")>>
  /\ info[3].name = NameB

\* the error kinds a Graph Loader task fails with
FailureOf(ret) ==
  IF ret.err.kind = "Exception" THEN ret.err.what
  ELSE ret.err.error.kind

\* C14: the step that fails a Graph Loader task (fetch error, compile
\* exception, assertion-validation failure, resolution failure of a request
\* or duplicate main) removes the task and leaves the registry as it is:
\* every module the task registered before is still in the ModuleInfo list
\* under its ModuleId and its name still resolves to that ModuleId; and no
\* later step of a load removes or re-points a module or a by-name entry.
C14_NoRollback ==
  /\ [][(last'.op = "top_register" /\ ~last'.ret.val.registered.ok)
          => LET load == last'.ret.val.load IN
             /\ top_level_loads' = <<>>
             /\ <<handles, info, by_name_js, by_name_json,
                  json_value_store>>'
                  = <<handles, info, by_name_js, by_name_json,
                      json_value_store>>
             /\ \A k \in DOMAIN load.registered :
                  LET id == load.registered[k] IN
                  /\ info'[id + 1].id = id
                  /\ EntryOf(info'[id + 1]) = load.fetched[k]
                  /\ get_id(by_name(by_name_js', by_name_json',
                                    load.fetched[k].type),
                            load.fetched[k].name) = Some(id)]_vars
  /\ [][/\ SubSeq(info', 1, Len(info)) = info
        /\ SubSeq(handles', 1, Len(handles)) = handles
        /\ \A name \in DOMAIN by_name_js :
             name \in DOMAIN by_name_js'
               /\ by_name_js'[name] = by_name_js[name]
        /\ \A name \in DOMAIN by_name_json :
             name \in DOMAIN by_name_json'
               /\ by_name_json'[name] = by_name_json[name]]_vars

\* C14 witness: a load failed with a compile exception after it had
\* registered two modules, which are still registered
C14_Witness ==
  /\ last.op = "top_register"
  /\ ~last.ret.val.registered.ok
  /\ FailureOf(last.ret.val.registered) = "compile"
  /\ Len(last.ret.val.load.registered) = 2
  /\ Len(info) = 2
  /\ \A k \in 1..2 :
       is_registered(by_name_js, by_name_json, info,
                     last.ret.val.load.fetched[k].name,
                     last.ret.val.load.fetched[k].type) = Some(TRUE)

\* a load failed by each of the other errors after it had registered a
\* module
FailedAfterRegistering(failure) ==
  /\ last.op = "top_register"
  /\ ~last.ret.val.registered.ok
  /\ FailureOf(last.ret.val.registered) = failure
  /\ last.ret.val.load.registered # <<>>

FailedByFetch == FailedAfterRegistering("Fetch")
FailedByAssertion == FailedAfterRegistering("assertion")
FailedByResolution == FailedAfterRegistering("Resolution")
FailedByParse == FailedAfterRegistering("parse")

\* a Main load failed at its root because a main module exists
FailedByDuplicateMain ==
  /\ last.op = "top_register"
  /\ ~last.ret.val.registered.ok
  /\ FailureOf(last.ret.val.registered) = "DuplicateMain"
  /\ info # <<>>

\* the module resolve_callback looks for: the resolved name, if the
\* specifier resolves, and the ModuleId the registry gives for it
LookedUp(call) ==
  IF LoaderResolve(call.name, <<>>).ok
  THEN get_id(by_name(by_name_js, by_name_json, call.type),
              LoaderResolve(call.name, <<>>).val)
  ELSE [tag |-> "Unresolved"]

FetchedBy(i) == Range(pending_dynamic_imports[i].fetched)

\* C16: a task fetches a worklist entry exactly when the registry does not
\* hold it at that moment, whatever the other in-flight tasks have fetched
\* or are fetching; a module a task compiled is registered as a new
\* ModuleInfo under a new ModuleId, which its name resolves to from then on,
\* even when another task registered the same name meanwhile.  So two
\* concurrent dynamic imports reaching the same unregistered module can both
\* fetch and compile it.
C16_ConcurrentFetch ==
  [][/\ last'.op = "graph_expand"
          => /\ last'.ret.val.fetch
                  <=> is_registered(by_name_js, by_name_json, info,
                                    last'.name, last'.type) = Some(FALSE)
             /\ fetches' = IF last'.ret.val.fetch THEN fetches + 1
                           ELSE fetches
     /\ (last'.op = "graph_register" /\ last'.ret.val.registered.ok)
          => /\ Len(info') = Len(info) + 1
             /\ info'[Len(info')].name = last'.name
             /\ get_id(by_name(by_name_js', by_name_json', last'.type),
                       last'.name) = Some(Len(info))]_vars

\* C16 witness: two in-flight dynamic imports have both fetched the same
\* module, and both copies are registered
C16_Witness ==
  /\ last.op = "graph_register"
  /\ last.ret.val.registered.ok
  /\ \E i, j \in DOMAIN pending_dynamic_imports :
       /\ i # j
       /\ [name |-> last.name, type |-> last.type]
            \in FetchedBy(i) \cap FetchedBy(j)
  /\ \E m, n \in DOMAIN info :
       /\ m < n
       /\ EntryOf(info[m]) = [name |-> last.name, type |-> last.type]
       /\ EntryOf(info[n]) = [name |-> last.name, type |-> last.type]
  /\ fetches >= 2

\* the operations that write to the registry without clearing it
RegistryWrites == {"new_es_module", "new_json_module", "inject_handle",
                   "alias"}

\* the info list and the handle list have only grown, and every key of the
\* two by-name mappings is still a key
OnlyGrown ==
  /\ Len(info') >= Len(info)
  /\ SubSeq(info', 1, Len(info)) = info
  /\ SubSeq(handles', 1, Len(handles)) = handles
  /\ DOMAIN by_name_js \subseteq DOMAIN by_name_js'
  /\ DOMAIN by_name_json \subseteq DOMAIN by_name_json'

\* following map from name passes through key within hops alias hops
RECURSIVE Passes(_, _, _, _)
Passes(map, name, key, hops) ==
  \/ name = key
  \/ /\ hops > 0
     /\ name \in DOMAIN map
     /\ map[name].tag = "Alias"
     /\ Passes(map, map[name].target, key, hops - 1)

\* C17 as stated: after a registration, an injection or an alias the info
\* list has only grown, every by-name key is still present, and every
\* (name, type) that resolved to a ModuleId resolves to the same ModuleId.
C17_Original ==
  [][last'.op \in RegistryWrites
       => /\ OnlyGrown
          /\ \A t \in AssertedModuleTypes, name \in Names :
               LET id == get_id(by_name(by_name_js, by_name_json, t), name)
               IN id.tag = "Some"
                    => get_id(by_name(by_name_js', by_name_json', t), name)
                         = id]_vars

\* C17 amended: after a registration, an injection or an alias the info
\* list and the handle list have only grown and every by-name key is still
\* present, and every key other than the (name, type) the operation wrote
\* keeps its entry.  The key written is overwritten: a registration of a
\* name already registered points it to the new ModuleId, and an alias
\* replaces a Concrete entry by the Alias.  So a (name, type) that resolved
\* to a ModuleId still resolves to it when its alias chain does not pass
\* through the key written, and not necessarily otherwise.
C17_OnlyGrows ==
  [][last'.op \in RegistryWrites
       => /\ OnlyGrown
          /\ \A t \in AssertedModuleTypes :
               LET map == by_name(by_name_js, by_name_json, t)
                   new == by_name(by_name_js', by_name_json', t)
               IN
               /\ \A name \in DOMAIN map :
                    (t # last'.type \/ name # last'.name)
                      => new[name] = map[name]
               /\ \A name \in Names :
                    (/\ get_id(map, name).tag = "Some"
                     /\ ~(/\ t = last'.type
                          /\ Passes(map, name, last'.name,
                                    Cardinality(DOMAIN map))))
                      => get_id(new, name) = get_id(map, name)
          /\ (last'.op = "alias")
               => by_name(by_name_js', by_name_json', last'.type)[last'.name]
                    = Alias(last'.arg)
          /\ (last'.op # "alias" /\ last'.ret.ok)
               => by_name(by_name_js', by_name_json', last'.type)[last'.name]
                    = Mod(Len(info))
          /\ (last'.op # "alias" /\ ~last'.ret.ok)
               => <<by_name_js, by_name_json>>' = <<by_name_js, by_name_json>>
     ]_vars

\* C17 witness: an alias was written over the Concrete entry of a
\* registered module, whose name no longer resolves to it
C17_Witness ==
  /\ last.op = "alias"
  /\ \E i \in DOMAIN info :
       /\ EntryOf(info[i]) = [name |-> last.name, type |-> last.type]
       /\ get_id(by_name(by_name_js, by_name_json, last.type), last.name)
            # Some(info[i].id)
  /\ by_name(by_name_js, by_name_json, last.type)[last.name]
       = Alias(last.arg)

\* a name registered twice resolves to the second ModuleId
RegisteredAgain ==
  /\ last.op \in RegistryWrites \ {"alias"}
  /\ last.ret = Ok(1)
  /\ EntryOf(info[1]) = EntryOf(info[2])

\* C18 as stated: in every state reached by registrations, injections and
\* alias calls with name # target, following the aliases from any key ends
\* after finitely many hops, so get_id returns for every name.
C18_AliasChainsTerminate ==
  \A t \in AssertedModuleTypes, name \in Names :
    get_id(by_name(by_name_js, by_name_json, t), name).tag # "Loop"

\* what name # target does give: no entry is an alias of its own name
NoSelfAlias ==
  \A t \in AssertedModuleTypes :
    LET map == by_name(by_name_js, by_name_json, t) IN
    \A name \in AliasKeys(map) : map[name].target # name

\* two alias calls with name # target have made "a" and "b" aliases of each
\* other
AliasCycle ==
  /\ last.op = "alias"
  /\ NameA \in DOMAIN by_name_js
  /\ NameB \in DOMAIN by_name_js
  /\ by_name_js[NameA] = Alias(NameB)
  /\ by_name_js[NameB] = Alias(NameA)

\* an alias whose target has no entry: get_id returns None for it
DanglingAlias ==
  /\ last.op = "alias"
  /\ last.arg \notin DOMAIN by_name(by_name_js, by_name_json, last.type)
  /\ get_id(by_name(by_name_js, by_name_json, last.type), last.name) = None

\* the requests of the ModuleInfo a successful new_es_module call appended
StoredRequests(call) == info'[call.ret.val + 1].requests

\* C19 as stated: the requests stored in a module's ModuleInfo are, in source
\* import order, the specifier text as written by the importing module, each
\* paired with its asserted type.
C19_Original ==
  [][(last'.op = "new_es_module" /\ last'.ret.ok)
       => StoredRequests(last')
            = [i \in DOMAIN last'.arg.imports |->
                 ModuleRequest(last'.arg.imports[i].specifier,
                               AssertedTypeOf(
                                 last'.arg.imports[i].assertion))]]_vars

\* C19 amended: the requests stored in a module's ModuleInfo are, in source
\* import order, the specifiers as the Loader resolved them against the
\* importing module's name (not the text as written), each paired with its
\* asserted type.
C19_ResolvedRequests ==
  [][(last'.op = "new_es_module" /\ last'.ret.ok)
       => StoredRequests(last')
            = [i \in DOMAIN last'.arg.imports |->
                 ModuleRequest(
                   LoaderResolve(last'.arg.imports[i].specifier,
                                 last'.name).val,
                   AssertedTypeOf(last'.arg.imports[i].assertion))]]_vars

\* C19 witness: a module importing "./b" and, as JSON, "./a" is registered
\* with the requests "b" and "a"
C19_Witness ==
  /\ last.op = "new_es_module"
  /\ last.ret.ok
  /\ last.arg.imports = <<Import(SpecB, "none"), Import(SpecA, "json")>>
  /\ info[last.ret.val + 1].requests
       = <<ModuleRequest(NameB, AssertedTypeOf("none")),
           ModuleRequest(NameA, AssertedTypeOf("json"))>>
  /\ NameB # SpecB

\* C20: when new_es_module or new_json_module returns an error the registry
\* is unchanged: the handle list, the info list, the two by-name mappings
\* and the JSON value store are as before, and the next ModuleId is the one
\* the failed call would have taken.
C20_ErrorLeavesRegistry ==
  [][(last'.op \in {"new_es_module", "new_json_module"} /\ ~last'.ret.ok)
       => /\ <<handles, info, by_name_js, by_name_json, json_value_store>>'
               = <<handles, info, by_name_js, by_name_json, json_value_store>>
          /\ NewModuleId' = NewModuleId
          /\ issued' = issued]_vars

\* C20 witness: a second main module was refused and the registry still
\* holds the first main module alone
C20_Witness ==
  /\ last.op = "new_es_module"
  /\ ~last.ret.ok
  /\ last.ret.err.kind = "Other"
  /\ last.ret.err.error.kind = "DuplicateMain"
  /\ Len(info) = 1
  /\ Len(handles) = 1
  /\ info[1].main
  /\ get_id(by_name_js, info[1].name) = Some(0)

\* the other errors of the two calls
EsCompileError ==
  /\ last.op = "new_es_module"
  /\ last.ret = Err([kind |-> "Exception", what |-> "compile"])
EsAssertionError ==
  /\ last.op = "new_es_module"
  /\ last.ret = Err([kind |-> "Exception", what |-> "assertion"])
EsResolutionError ==
  /\ last.op = "new_es_module"
  /\ ~last.ret.ok
  /\ last.ret.err.kind = "Other"
  /\ last.ret.err.error.kind = "Resolution"
JsonParseError ==
  /\ last.op = "new_json_module"
  /\ last.ret = Err([kind |-> "Exception", what |-> "parse"])
  /\ json_value_store # EmptyMap

\* the entries of a payload's by-name array that belong to asserted type t
PayloadEntries(by_name_arr, t) ==
  {i \in DOMAIN by_name_arr : AssertedTypeFromNo(by_name_arr[i][2].val) = t}

\* C21: decoding a snapshot replaces the registry, whatever it held: the
\* LoadId counter, the ModuleInfo list and the handle list are those of the
\* payload, and each by-name mapping has exactly the keys of the payload's
\* entries of its type, each with the payload's value.
C21_DecodeReplaces ==
  [][last'.op = "update_with_snapshotted_data"
       => LET data == snapshot.val.module_map_data IN
          /\ next_load_id' = data[1].val
          /\ Len(info') = Len(data[2])
          /\ \A i \in DOMAIN data[2] : info'[i] = ModuleInfoFromArr(data[2][i])
          /\ handles' = snapshot.val.module_handles
          /\ \A t \in AssertedModuleTypes :
               LET new == by_name(by_name_js', by_name_json', t)
                   entries == PayloadEntries(data[3], t)
               IN
               /\ DOMAIN new
                    = {ToRustStringLossy(data[3][i][1]) : i \in entries}
               /\ \A i \in entries :
                    (\A j \in entries :
                       j > i => data[3][j][1] # data[3][i][1])
                      => new[ToRustStringLossy(data[3][i][1])]
                           = SymbolicModuleFromVal(data[3][i][3])]_vars

\* C21 witness: a snapshot taken of a registry holding the module "a" alone
\* was decoded into a registry in which two modules had been registered
\* since; the registry holds "a" alone again
C21_Witness ==
  /\ last.op = "update_with_snapshotted_data"
  /\ Len(snapshot.val.module_map_data[2]) = 1
  /\ Cardinality(issued) = 2
  /\ Len(info) = 1
  /\ Len(handles) = 1
  /\ DOMAIN by_name_js \cup DOMAIN by_name_json = {info[1].name}

\* a snapshot of the empty registry decoded into a registry that held
\* modules: nothing is left
DecodedEmpty ==
  /\ last.op = "update_with_snapshotted_data"
  /\ issued # {}
  /\ info = <<>>
  /\ handles = <<>>
  /\ by_name_js = EmptyMap
  /\ by_name_json = EmptyMap

\* C22 as stated: the evaluation step of a JSON module made by
\* new_json_module always finds the module's entry in the JSON value store.
C22_LookupNeverFails ==
  [][last'.op = "json_module_evaluation_steps" => last'.ret.ok]_vars

\* the JSON modules of the registry that have not been evaluated
Unevaluated ==
  {handles[i] : i \in {j \in DOMAIN handles \cap DOMAIN info :
                         info[j].module_type = "Json"}} \ DOMAIN evaluated

\* what the two operations do: a successful new_json_module adds one entry
\* keyed by the new module's handle, and an evaluation step that finds the
\* entry removes it and sets the value as the default export
JsonValueStoreSteps ==
  [][/\ (last'.op = "new_json_module" /\ last'.ret.ok)
          => /\ handles'[last'.ret.val + 1] \notin DOMAIN json_value_store
             /\ json_value_store'
                  = MapInsert(json_value_store, handles'[last'.ret.val + 1],
                              JsonParse(strip_bom(last'.arg)).val)
     /\ (last'.op = "json_module_evaluation_steps" /\ last'.ret.ok)
          => /\ last'.arg \in DOMAIN json_value_store
             /\ json_value_store' = MapRemove(json_value_store, last'.arg)
             /\ evaluated'
                  = MapInsert(evaluated, last'.arg,
                              json_value_store[last'.arg])]_vars

\* a JSON module decoded from a snapshot into a new registry has no entry in
\* the JSON value store, which the snapshot does not carry
RestoredWithoutValue ==
  /\ last.op = "update_with_snapshotted_data"
  /\ Unevaluated # {}
  /\ json_value_store = EmptyMap

\* the evaluation of such a module has panicked
EvaluationPanicked ==
  /\ last.op = "json_module_evaluation_steps"
  /\ last.ret = Err([kind |-> "Panic"])

\* the LoadIds of the dynamic imports held by the two collections
QueuedLoadIds ==
  {preparing_dynamic_imports[i].id : i \in DOMAIN preparing_dynamic_imports}
    \cup {pending_dynamic_imports[i].id : i \in DOMAIN pending_dynamic_imports}

\* C23: every LoadId the LoadId-to-promise map holds is the id of a dynamic
\* import in the preparing or the pending collection, so
\* has_pending_dynamic_imports() is true whenever the map holds an unsettled
\* import; load_dynamic_import queues the import in the preparing
\* collection in all three cases (already registered, to prepare,
\* resolution failure).
C23_HasPending ==
  /\ [](/\ DOMAIN dynamic_import_map \subseteq QueuedLoadIds
        /\ dynamic_import_map # EmptyMap => has_pending_dynamic_imports
        /\ \A id \in DOMAIN dynamic_import_map :
             promises[dynamic_import_map[id]].state = "pending")
  /\ [][last'.op = "load_dynamic_import"
          => /\ last'.ret.val.id \in DOMAIN dynamic_import_map'
             /\ preparing_dynamic_imports'
                  = Append(preparing_dynamic_imports, last'.ret.val)
             /\ has_pending_dynamic_imports']_vars

\* C23 witness: a dynamic import whose specifier does not resolve is queued
\* and its promise unsettled: has_pending_dynamic_imports() is true
C23_Witness ==
  /\ last.op = "load_dynamic_import"
  /\ last.ret.val.kind = "resolve_failed"
  /\ DOMAIN dynamic_import_map = {last.ret.val.id}
  /\ promises[dynamic_import_map[last.ret.val.id]].state = "pending"
  /\ pending_dynamic_imports = <<>>
  /\ has_pending_dynamic_imports

\* the same for an import of a module already registered
QueuedRegistered ==
  /\ last.op = "load_dynamic_import"
  /\ last.ret.val.kind = "registered"
  /\ DOMAIN dynamic_import_map = {last.ret.val.id}
  /\ has_pending_dynamic_imports

\* an unsettled import whose task is in the pending collection alone
QueuedPending ==
  /\ dynamic_import_map # EmptyMap
  /\ preparing_dynamic_imports = <<>>
  /\ has_pending_dynamic_imports

\* C24: every Concrete entry stored under a name in the mapping of asserted
\* type t holds a ModuleId that is an index of the info list, whose
\* ModuleInfo has that id, that name and a module type corresponding to t;
\* so whenever get_id(name, t) succeeds, is_registered(name, t) is true and
\* its ModuleInfo lookup does not fail.
C24_ConcreteValid ==
  /\ Len(info) = Len(handles)
  /\ \A t \in AssertedModuleTypes :
       LET map == by_name(by_name_js, by_name_json, t) IN
       /\ \A name \in DOMAIN map :
            map[name].tag = "Mod"
              => /\ map[name].id < Len(info)
                 /\ info[map[name].id + 1].id = map[name].id
                 /\ info[map[name].id + 1].name = name
                 /\ TypeInto(info[map[name].id + 1].module_type) = t
       /\ \A name \in Names :
            get_id(map, name).tag = "Some"
              => /\ get_info_by_id(info, get_id(map, name).val).tag = "Some"
                 /\ is_registered(by_name_js, by_name_json, info, name, t)
                      = Some(TRUE)

\* C24 witness: "b" is an alias of "a" among the JSON names, "a" is
\* registered there a second time, and both resolve to the second module,
\* which is_registered finds
C24_Witness ==
  /\ NameA \in DOMAIN by_name_json
  /\ NameB \in DOMAIN by_name_json
  /\ by_name_json[NameA] = Mod(1)
  /\ by_name_json[NameB] = Alias(NameA)
  /\ EntryOf(info[1]) = EntryOf(info[2])
  /\ get_id(by_name_json, NameB) = Some(1)
  /\ is_registered(by_name_js, by_name_json, info, NameB, "Json") = Some(TRUE)

====
